---- MODULE Spec2Model ----
(***************************************************************************)
(* A model of flask-googlestorage's bucket storage engine:                 *)
(*   LocalBucket / CloudBucket (save, delete) and the Bucket facade        *)
(*   (construction, save, delete, storage, storage_ctx).                   *)
(*                                                                         *)
(* Strings are sequences of one-character strings; a relative PurePath is  *)
(* the sequence of its parts.  The local destination directory is a        *)
(* function from paths to "DIR" or the bytes of a file; the remote bucket  *)
(* is the set of the names of its blobs.                                   *)
(***************************************************************************)
EXTENDS Integers, Sequences, FiniteSets, TLC

VARIABLES
    disk,       \* the local destination: path -> "DIR" | file bytes
    remote,     \* the Google Cloud Storage bucket: the names of its blobs
    pc,         \* per thread: the statement the thread is at
    fr,         \* per thread: the frame (arguments and locals) of its call
    slot,       \* Bucket._storage: <<>> for None, else <<storage>>
    ctx,        \* per thread: the storage_ctx blocks it has open
    app,        \* current_app: application context and extension state
    uuids,      \* number of uuid4() values drawn so far
    bucket      \* the Bucket facade: the last Bucket(name, allows) and its outcome

vars == <<disk, remote, pc, fr, slot, ctx, app, uuids, bucket>>

(***************************************************************************)
(* Bounds                                                                  *)
(***************************************************************************)
MaxFiles == 3       \* entries in the destination before a save may start
MaxBlobs == 1       \* blobs in the remote bucket before a save may start
MaxFacadeFiles == 2 \* local entries plus blobs before a save through the facade
MaxStop == 3        \* largest stop_after_attempt(n) configured
MaxCtxDepth == 2    \* nesting depth of storage_ctx blocks
MaxNameLen == 3     \* length of the bucket names tried
MaxUuid == 1        \* uuid4() values drawn
MaxPathLen == 5     \* length of the filenames and names handed to secure_path
MaxSecuredSaves == 2 \* saves of one secured path

Threads == {"t1", "t2"}
MainThread == "t1"

None == "None"
DIR == "DIR"
Contents == {"A", "B"}

(***************************************************************************)
(* Strings                                                                 *)
(***************************************************************************)
Digits == <<"0", "1", "2", "3", "4", "5", "6", "7", "8", "9">>

RECURSIVE IntToStr(_)
\* str(n) for n >= 0, as used by the f-string at buckets.py:80
IntToStr(n) ==
    IF n < 10 THEN <<Digits[n + 1]>>
    ELSE IntToStr(n \div 10) \o <<Digits[(n % 10) + 1]>>

LowerCase == <<"a", "b", "c", "d", "e", "f", "g", "h", "i", "j", "k", "l", "m",
               "n", "o", "p", "q", "r", "s", "t", "u", "v", "w", "x", "y", "z">>
UpperCase == <<"A", "B", "C", "D", "E", "F", "G", "H", "I", "J", "K", "L", "M",
               "N", "O", "P", "Q", "R", "S", "T", "U", "V", "W", "X", "Y", "Z">>

Range(s) == {s[i] : i \in 1..Len(s)}

AsciiLetters == Range(LowerCase) \cup Range(UpperCase)
AsciiDigits == Range(Digits)

\* characters outside ASCII that the inputs use, written by code point:
\* e-acute (a letter with an ASCII decomposition), the CJK letter U+5929
\* (without one) and superscript two (a digit)
NonAsciiLetters == {"U+00E9", "U+5929"}
NonAsciiDigits == {"U+00B2"}

\* str.lower() of one character
LowerChar(c) ==
    IF c \in Range(UpperCase)
    THEN LowerCase[CHOOSE i \in 1..Len(UpperCase) : UpperCase[i] = c]
    ELSE c

\* str.lower()
Lower(s) == [i \in 1..Len(s) |-> LowerChar(s[i])]

\* a test against the pattern ^[A-Za-z0-9]+$
IsAlnumAscii(s) ==
    /\ Len(s) > 0
    /\ \A i \in 1..Len(s) : s[i] \in AsciiLetters \cup AsciiDigits

\* str.isalnum(): non-empty, and every character is a letter or a digit of
\* any script (buckets.py:250)
IsAlnum(s) ==
    /\ Len(s) > 0
    /\ \A i \in 1..Len(s) :
        s[i] \in AsciiLetters \cup AsciiDigits \cup NonAsciiLetters \cup NonAsciiDigits

RECURSIVE Strip(_, _)
\* str.strip(chars)
Strip(s, chars) ==
    IF s = <<>> THEN s
    ELSE IF Head(s) \in chars THEN Strip(Tail(s), chars)
    ELSE IF s[Len(s)] \in chars THEN Strip(SubSeq(s, 1, Len(s) - 1), chars)
    ELSE s

RECURSIVE FlatMap(_, _)
\* the concatenation of Op(c) over the characters of s
FlatMap(Op(_), s) ==
    IF s = <<>> THEN <<>> ELSE Op(Head(s)) \o FlatMap(Op, Tail(s))

\* str.rfind("."), 1-based; 0 when there is no dot
RFindDot(s) ==
    LET I == {i \in 1..Len(s) : s[i] = "."}
    IN  IF I = {} THEN 0 ELSE CHOOSE i \in I : \A j \in I : j <= i

(***************************************************************************)
(* PurePath (relative paths, as sequences of parts)                        *)
(***************************************************************************)
PathName(p) == IF p = <<>> THEN <<>> ELSE p[Len(p)]

PathParent(p) == IF p = <<>> THEN <<>> ELSE SubSeq(p, 1, Len(p) - 1)

\* PurePath.suffix: name[i:] when 0 < i < len(name) - 1 (0-based rfind)
Suffix(name) ==
    LET i == RFindDot(name)
    IN  IF 1 < i /\ i < Len(name) THEN SubSeq(name, i, Len(name)) ELSE <<>>

\* PurePath.stem
Stem(name) ==
    LET i == RFindDot(name)
    IN  IF 1 < i /\ i < Len(name) THEN SubSeq(name, 1, i - 1) ELSE name

WithName(p, name) == PathParent(p) \o <<name>>

RECURSIVE PathStr(_)
\* str(path): the parts joined by "/"
PathStr(p) ==
    IF p = <<>> THEN <<".">>
    ELSE IF Len(p) = 1 THEN p[1]
    ELSE PathStr(PathParent(p)) \o <<"/">> \o PathName(p)

RECURSIVE SplitSlash(_, _)
\* the parts of a string split at "/", empty and "." parts dropped;
\* cur is the part being collected
SplitSlash(s, cur) ==
    LET keep == IF cur = <<>> \/ cur = <<".">> THEN <<>> ELSE <<cur>>
    IN  IF s = <<>> THEN keep
        ELSE IF Head(s) = "/" THEN keep \o SplitSlash(Tail(s), <<>>)
        ELSE SplitSlash(Tail(s), Append(cur, Head(s)))

\* destination / filename for a relative filename string
PathOf(s) == SplitSlash(s, <<>>)

\* PurePath(s).parts for any string: as PathOf, with the root "/" kept as
\* the first part of an absolute path (".." parts are kept as they are)
PurePathParts(s) ==
    IF s # <<>> /\ Head(s) = "/" THEN <<<<"/">>>> \o PathOf(s) ELSE PathOf(s)

\* PurePath.name of parsed parts: empty for "." and for the root
PartsName(parts) ==
    IF parts = <<>> \/ parts = <<<<"/">>>> THEN <<>> ELSE parts[Len(parts)]

\* PurePath.parent.parts of parsed parts
PartsParent(parts) ==
    IF parts = <<>> \/ parts = <<<<"/">>>> THEN parts
    ELSE SubSeq(parts, 1, Len(parts) - 1)

\* PurePath(name).with_suffix(suffix) for a one-part path
WithSuffix(name, suffix) ==
    LET old == Suffix(name)
    IN  IF old = <<>> THEN name \o suffix
        ELSE SubSeq(name, 1, Len(name) - Len(old)) \o suffix

(***************************************************************************)
(* werkzeug.utils.secure_filename and utils.secure_path                    *)
(***************************************************************************)
\* unicodedata.normalize("NFKD", c).encode("ascii", "ignore"): e-acute
\* keeps its base letter, other non-ASCII characters are dropped
AsciiOf(c) ==
    IF c = "U+00E9" THEN <<"e">>
    ELSE IF c = "U+00B2" THEN <<"2">>
    ELSE IF c \in NonAsciiLetters \cup NonAsciiDigits THEN <<>>
    ELSE <<c>>

\* filename.replace(os.sep, " ")
SepToSpace(c) == IF c = "/" THEN <<" ">> ELSE <<c>>

RECURSIVE Collapse(_)
\* every run of spaces of a string without leading or trailing spaces
\* becomes one "_"
Collapse(s) ==
    IF s = <<>> THEN <<>>
    ELSE IF Head(s) = " " THEN <<"_">> \o Collapse(Strip(Tail(s), {" "}))
    ELSE <<Head(s)>> \o Collapse(Tail(s))

\* "_".join(s.split())
JoinWords(s) == Collapse(Strip(s, {" "}))

\* _filename_ascii_strip_re = [^A-Za-z0-9_.-]
KeepSafe(c) ==
    IF c \in AsciiLetters \cup AsciiDigits \cup {"_", ".", "-"} THEN <<c>> ELSE <<>>

\* a part used as it came, without secure_filename
secure_filename_raw(s) == s

\* werkzeug.utils.secure_filename (POSIX)
secure_filename(s) ==
    Strip(FlatMap(KeepSafe, JoinWords(FlatMap(SepToSpace, FlatMap(AsciiOf, s)))),
          {".", "_"})

\* str(uuid.uuid4()) for the n-th value drawn
Uuid(n) == <<"a", "5", "3", "d", "-">> \o IntToStr(n)

RECURSIVE SecureParts(_)
\* utils.py:48  the secured parent parts, ".." parts left out; PurePath(*parts)
\* drops the parts that became empty
SecureParts(parts) ==
    IF parts = <<>> THEN <<>>
    ELSE LET part == Head(parts)
             sec == secure_filename(part)
         IN  (IF part = <<".", ".">> \/ sec = <<>> THEN <<>> ELSE <<sec>>)
             \o SecureParts(Tail(parts))

\* a secure_path without the fallback of utils.py:54-55 for an empty
\* secure_name
secure_path_no_fallback(filename, name, uuid_name, n) ==
    LET file_ext == Suffix(PartsName(PurePathParts(filename)))
        parts == PurePathParts(name)
        suffix == Suffix(PartsName(parts))
        ext == IF name # <<>> /\ suffix # <<>> THEN suffix ELSE file_ext
        secure_parent == IF name # <<>> THEN SecureParts(PartsParent(parts)) ELSE <<>>
        secure_name == IF name # <<>> THEN secure_filename(PartsName(parts))
                       ELSE IF uuid_name THEN Uuid(n + 1)
                       ELSE secure_filename(filename)
        drawn == IF name = <<>> /\ uuid_name THEN 1 ELSE 0
    IN  [path |-> secure_parent \o <<WithSuffix(secure_name, Lower(ext))>>,
         drawn |-> drawn]

\* utils.py:37-57  secure_path(filename, name, uuid_name); name = <<>> stands
\* for None (both are falsy), n is the number of uuid4() values drawn before.
\* The result is [path, drawn]: the secured path and the uuid4() calls made.
secure_path(filename, name, uuid_name, n) ==
    LET file_ext == Suffix(PartsName(PurePathParts(filename)))
        parts == PurePathParts(name)
        suffix == Suffix(PartsName(parts))
        ext == IF name # <<>> /\ suffix # <<>> THEN suffix ELSE file_ext
        secure_parent == IF name # <<>> THEN SecureParts(PartsParent(parts)) ELSE <<>>
        first == IF name # <<>> THEN secure_filename(PartsName(parts))
                 ELSE IF uuid_name THEN Uuid(n + 1)
                 ELSE secure_filename(filename)
        secure_name == IF first = <<>> THEN Uuid(n + 1) ELSE first
        drawn == IF (name = <<>> /\ uuid_name) \/ first = <<>> THEN 1 ELSE 0
    IN  [path |-> secure_parent \o <<WithSuffix(secure_name, Lower(ext))>>,
         drawn |-> drawn]

(***************************************************************************)
(* The local filesystem under the destination root                         *)
(***************************************************************************)
Exists(d, p) == p = <<>> \/ p \in DOMAIN d

IsDir(d, p) == p = <<>> \/ (p \in DOMAIN d /\ d[p] = DIR)

IsFile(d, p) == p \in DOMAIN d /\ d[p] # DIR

Prefixes(p) == {SubSeq(p, 1, i) : i \in 1..Len(p)}

\* Path.mkdir(parents=True, exist_ok=True) raises when the path or one of
\* its ancestors is a regular file
MkdirRaises(d, p) == \E q \in Prefixes(p) : IsFile(d, q)

Mkdir(d, p) ==
    [q \in DOMAIN d \cup Prefixes(p) |-> IF q \in DOMAIN d THEN d[q] ELSE DIR]

\* open(dst, "wb") and copy: creates or truncates the file
WriteFile(d, p, bytes) ==
    [q \in DOMAIN d \cup {p} |-> IF q = p THEN bytes ELSE d[q]]

Unlink(d, p) == [q \in DOMAIN d \ {p} |-> d[q]]

Files(d) == {p \in DOMAIN d : d[p] # DIR}

(***************************************************************************)
(* Backends.  A backend instance is the record of its attributes; all      *)
(* instances share the destination directory and the remote bucket.        *)
(* tenacity is the dict of keyword arguments for tenacity.retry, a set of  *)
(* <<key, value>> pairs ({} when not configured).                          *)
(***************************************************************************)
Tenacities == {{}} \cup {{<<"stop", n>>} : n \in 1..MaxStop}

\* LocalBucket.__init__
LocalBucket(rc) == [kind |-> "local", resolve_conflicts |-> rc]

\* CloudBucket.__init__
CloudBucket(rc, dl, ten) ==
    [kind |-> "cloud", resolve_conflicts |-> rc, delete_local |-> dl,
     tenacity |-> ten]

LocalBuckets == {LocalBucket(rc) : rc \in BOOLEAN}

CloudBuckets ==
    {CloudBucket(rc, dl, ten) : rc \in BOOLEAN, dl \in BOOLEAN, ten \in Tenacities}

Backends == LocalBuckets \cup CloudBuckets

\* stop_after_attempt(n) from the tenacity dict
StopAfter(ten) == (CHOOSE kv \in ten : kv[1] = "stop")[2]

(***************************************************************************)
(* Inputs                                                                  *)
(***************************************************************************)
foo_txt == <<"f", "o", "o", ".", "t", "x", "t">>

\* secured relative paths handed to LocalBucket.save / CloudBucket.save
InputPaths == {<<foo_txt>>, <<foo_txt, foo_txt>>}

GoogleCloudError == "GoogleCloudError"
OtherErrors == {"OSError"}

(***************************************************************************)
(* Frames                                                                  *)
(***************************************************************************)
\* the b of a frame that has no backend (yet)
NoBackend == [kind |-> "none"]

IdleFrame ==
    [op |-> None, b |-> NoBackend, bytes |-> None, arg |-> <<>>, path |-> <<>>,
     public |-> FALSE, count |-> 0, k |-> 0, kind |-> None, calls |-> 0,
     exc |-> None, exc_at |-> 0, md5 |-> None, uploaded |-> None, made_public |-> 0, name |-> <<>>,
     via |-> None, prev |-> None, res |-> None, isfs |-> TRUE,
     filename |-> <<>>, pname |-> <<>>, uuid_name |-> FALSE, ret |-> None,
     env |-> None, buckets |-> <<>>]

\* the statements of LocalBucket.save, CloudBucket.save and the deletes
SaveSteps == {"mkdir", "exists", "loop", "write", "md5", "upload", "finally",
              "make_public"}
DeleteSteps == {"get_blob", "local_delete"}

Set(t, f) == fr' = [fr EXCEPT ![t] = f]
Goto(t, l) == pc' = [pc EXCEPT ![t] = l]

\* the call ends: it returns (res = "ok") or raises (res = the exception)
Finish(t, f, res) ==
    /\ fr' = [fr EXCEPT ![t] = [f EXCEPT !.res = res]]
    /\ pc' = [pc EXCEPT ![t] = "done"]

Facade == <<slot, ctx, app, uuids, bucket>>

(***************************************************************************)
(* LocalBucket.save                                                        *)
(***************************************************************************)
\* buckets.py:73  (self.destination / path.parent).mkdir(parents=True, exist_ok=True)
LocalBucket_save_mkdir(t) ==
    /\ pc[t] = "mkdir"
    /\ LET parent == PathParent(fr[t].path)
       IN  IF MkdirRaises(disk, parent)
           THEN /\ Finish(t, fr[t], "FileExistsError")
                /\ UNCHANGED disk
           ELSE /\ disk' = Mkdir(disk, parent)
                /\ Goto(t, "exists")
                /\ UNCHANGED fr
    /\ UNCHANGED <<remote, Facade>>

\* a save that never looks whether the path is taken
LocalBucket_save_exists_never(t) ==
    /\ pc[t] = "exists"
    /\ Goto(t, "write")
    /\ UNCHANGED <<disk, remote, fr, Facade>>

\* buckets.py:75  if self.resolve_conflicts and filepath.exists()
LocalBucket_save_exists(t) ==
    /\ pc[t] = "exists"
    /\ IF fr[t].b.resolve_conflicts /\ Exists(disk, fr[t].path)
       THEN Goto(t, "loop")
       ELSE Goto(t, "write")
    /\ UNCHANGED <<disk, remote, fr, Facade>>

\* a counter that is used before it is incremented: the first name is stem_0
ConflictNameFromZero(arg, count) ==
    WithName(arg, Stem(PathName(arg)) \o <<"_">> \o IntToStr(count - 1)
                  \o Suffix(PathName(arg)))

\* buckets.py:80  path.with_name(f"{stem}_{count}{suffix}")
ConflictName(arg, count) ==
    WithName(arg, Stem(PathName(arg)) \o <<"_">> \o IntToStr(count)
                  \o Suffix(PathName(arg)))

\* a renaming that is done once, without testing the new name
LocalBucket_save_loop_once(t) ==
    /\ pc[t] = "loop"
    /\ Set(t, [fr[t] EXCEPT !.count = @ + 1,
                            !.path = ConflictName(fr[t].arg, fr[t].count + 1)])
    /\ Goto(t, "write")
    /\ UNCHANGED <<disk, remote, Facade>>

\* buckets.py:78-81  one test of the while condition and, when it holds, one
\* pass through the loop body
LocalBucket_save_loop(t) ==
    /\ pc[t] = "loop"
    /\ IF Exists(disk, fr[t].path)
       THEN /\ Set(t, [fr[t] EXCEPT !.count = @ + 1,
                                    !.path = ConflictName(fr[t].arg, fr[t].count + 1)])
            /\ UNCHANGED pc
       ELSE /\ Goto(t, "write")
            /\ UNCHANGED fr
    /\ UNCHANGED <<disk, remote, Facade>>

\* buckets.py:83-84  storage.save(filepath); return path
LocalBucket_save_write(t) ==
    /\ pc[t] = "write"
    /\ IF IsDir(disk, fr[t].path)
       THEN /\ Finish(t, fr[t], "IsADirectoryError")
            /\ UNCHANGED disk
       ELSE /\ disk' = WriteFile(disk, fr[t].path, fr[t].bytes)
            /\ IF fr[t].b.kind = "local"
               THEN Finish(t, fr[t], "ok")
               ELSE Goto(t, "md5") /\ UNCHANGED fr
    /\ UNCHANGED <<remote, Facade>>

(***************************************************************************)
(* CloudBucket.save                                                        *)
(***************************************************************************)
\* buckets.py:201-205  blob = self.bucket.blob(str(path)); the MD5 of the
\* staged bytes is attached to the blob
CloudBucket_save_md5(t) ==
    /\ pc[t] = "md5"
    /\ IF IsFile(disk, fr[t].path)
       THEN /\ Set(t, [fr[t] EXCEPT !.md5 = disk[fr[t].path]])
            /\ Goto(t, "upload")
       ELSE Finish(t, fr[t], "FileNotFoundError")
    /\ UNCHANGED <<disk, remote, Facade>>

\* a stop condition that is off by one: it stops after attempt N + 1
RetriesOffByOne(ten, n, exc) ==
    /\ ten # {}
    /\ exc = GoogleCloudError
    /\ ~(n > StopAfter(ten))

\* a retry that does not look at the type of the exception
RetriesAnyError(ten, n, exc) ==
    /\ ten # {}
    /\ ~(n >= StopAfter(ten))

\* tenacity.retry(reraise=True, retry=retry_if_exception_type(GoogleCloudError),
\* **self.tenacity): after the n-th attempt raised exc, is another one made?
\* (buckets.py:208-215; without a tenacity dict the call is made once)
Retries(ten, n, exc) ==
    /\ ten # {}
    /\ exc = GoogleCloudError
    /\ ~(n >= StopAfter(ten))

\* the outcome of the n-th blob.upload_from_filename(filepath) of a call
\* against a store whose first k uploads raise kind: "ok" or the exception
UploadOutcome(d, f, n, k, kind) ==
    IF ~IsFile(d, f.path) THEN "FileNotFoundError"
    ELSE IF n <= k THEN kind
    ELSE IF d[f.path] # f.md5 THEN GoogleCloudError
    ELSE "ok"

\* a blob named by a uuid of its own with the suffix of the path
BlobNameFresh(path) == Uuid(0) \o Suffix(PathName(path))

\* a blob named by path.name, which drops the folders of the path
BlobNameBase(path) == PathName(path)

\* buckets.py:203  the name of the blob: str(path)
BlobName(path) == PathStr(path)

\* a retry wrapped around the whole save: after an attempt that is to be
\* repeated the file is staged again
CloudBucket_save_upload_restages(t) ==
    /\ pc[t] = "upload"
    /\ \E k \in 0..MaxStop, kind \in {GoogleCloudError} \cup OtherErrors :
        /\ IF fr[t].calls = 0
           THEN /\ k = 0 => kind = GoogleCloudError
                /\ kind # GoogleCloudError => k = 1
           ELSE k = fr[t].k /\ kind = fr[t].kind
        /\ LET n == fr[t].calls + 1
               out == UploadOutcome(disk, fr[t], n, k, kind)
               f == [fr[t] EXCEPT !.calls = n, !.k = k, !.kind = kind]
           IN  IF out = "ok"
               THEN /\ remote' = remote \cup {BlobName(f.path)}
                    /\ Set(t, [f EXCEPT !.uploaded = disk[f.path]])
                    /\ Goto(t, "finally")
               ELSE IF Retries(f.b.tenacity, n, out)
               THEN /\ Set(t, f)
                    /\ Goto(t, "mkdir")
                    /\ UNCHANGED remote
               ELSE /\ Set(t, [f EXCEPT !.exc = out, !.exc_at = n])
                    /\ Goto(t, "finally")
                    /\ UNCHANGED remote
    /\ UNCHANGED <<disk, Facade>>

\* an upload that creates the blob before it fails for good
CloudBucket_save_upload_partial(t) ==
    /\ pc[t] = "upload"
    /\ \E k \in 0..MaxStop, kind \in {GoogleCloudError} \cup OtherErrors :
        /\ IF fr[t].calls = 0
           THEN /\ k = 0 => kind = GoogleCloudError
                /\ kind # GoogleCloudError => k = 1
           ELSE k = fr[t].k /\ kind = fr[t].kind
        /\ LET n == fr[t].calls + 1
               out == UploadOutcome(disk, fr[t], n, k, kind)
               f == [fr[t] EXCEPT !.calls = n, !.k = k, !.kind = kind]
           IN  IF out = "ok"
               THEN /\ remote' = remote \cup {BlobName(f.path)}
                    /\ Set(t, [f EXCEPT !.uploaded = disk[f.path]])
                    /\ Goto(t, "finally")
               ELSE IF Retries(f.b.tenacity, n, out)
               THEN /\ Set(t, f)
                    /\ UNCHANGED <<pc, remote>>
               ELSE /\ Set(t, [f EXCEPT !.exc = out, !.exc_at = n])
                    /\ Goto(t, "finally")
                    /\ remote' = remote \cup {BlobName(f.path)}
    /\ UNCHANGED <<disk, Facade>>

\* buckets.py:207-215  one call of blob.upload_from_filename(filepath); the
\* store's behaviour for this save (k, kind) is fixed at its first upload
CloudBucket_save_upload(t) ==
    /\ pc[t] = "upload"
    /\ \E k \in 0..MaxStop, kind \in {GoogleCloudError} \cup OtherErrors :
        /\ IF fr[t].calls = 0
           THEN /\ k = 0 => kind = GoogleCloudError
                /\ kind # GoogleCloudError => k = 1
           ELSE k = fr[t].k /\ kind = fr[t].kind
        /\ LET n == fr[t].calls + 1
               out == UploadOutcome(disk, fr[t], n, k, kind)
               f == [fr[t] EXCEPT !.calls = n, !.k = k, !.kind = kind]
           IN  IF out = "ok"
               THEN /\ remote' = remote \cup {BlobName(f.path)}
                    /\ Set(t, [f EXCEPT !.uploaded = disk[f.path]])
                    /\ Goto(t, "finally")
               ELSE IF Retries(f.b.tenacity, n, out)
               THEN /\ Set(t, f)
                    /\ UNCHANGED <<pc, remote>>
               ELSE /\ Set(t, [f EXCEPT !.exc = out, !.exc_at = n])
                    /\ Goto(t, "finally")
                    /\ UNCHANGED remote
    /\ UNCHANGED <<disk, Facade>>

\* a cleanup written after the try block instead of in its finally clause:
\* it is skipped when the upload raised
CleanupRunsOnSuccess(delete_local, exc) == delete_local /\ exc = None

\* buckets.py:216-217  the finally clause runs whether or not the upload
\* raised exc, and unlinks when delete_local is set
CleanupRuns(delete_local, exc) == delete_local

\* buckets.py:216-218  finally: if self.delete_local: filepath.unlink(); an
\* exception of the upload propagates afterwards
CloudBucket_save_finally(t) ==
    /\ pc[t] = "finally"
    /\ LET cleanup == CleanupRuns(fr[t].b.delete_local, fr[t].exc)
           missing == cleanup /\ ~IsFile(disk, fr[t].path)
           exc == IF missing THEN "FileNotFoundError" ELSE fr[t].exc
       IN  /\ IF cleanup /\ ~missing
              THEN disk' = Unlink(disk, fr[t].path)
              ELSE UNCHANGED disk
           /\ IF exc # None
              THEN Finish(t, [fr[t] EXCEPT !.exc = exc], exc)
              ELSE Goto(t, "make_public") /\ UNCHANGED fr
    /\ UNCHANGED <<remote, Facade>>

\* a save that makes the blob public whether or not it was asked to
CloudBucket_save_make_public_always(t) ==
    /\ pc[t] = "make_public"
    /\ \E fails \in BOOLEAN :
        Finish(t, [fr[t] EXCEPT !.made_public = @ + 1],
               IF fails THEN GoogleCloudError ELSE "ok")
    /\ UNCHANGED <<disk, remote, Facade>>

\* buckets.py:220-223  if public: blob.make_public(); return path.
\* made_public counts the calls of blob.make_public(), which may raise
CloudBucket_save_make_public(t) ==
    /\ pc[t] = "make_public"
    /\ IF fr[t].public
       THEN \E fails \in BOOLEAN :
                Finish(t, [fr[t] EXCEPT !.made_public = @ + 1],
                       IF fails THEN GoogleCloudError ELSE "ok")
       ELSE Finish(t, fr[t], "ok")
    /\ UNCHANGED <<disk, remote, Facade>>

(***************************************************************************)
(* CloudBucket.delete and LocalBucket.delete                               *)
(***************************************************************************)
\* a delete that returns after blob.delete(), leaving the local file alone
CloudBucket_delete_only_remote(t) ==
    /\ pc[t] = "get_blob"
    /\ IF fr[t].name \in remote
       THEN /\ remote' = remote \ {fr[t].name}
            /\ Finish(t, fr[t], "ok")
       ELSE /\ Goto(t, "local_delete")
            /\ UNCHANGED <<fr, remote>>
    /\ UNCHANGED <<disk, Facade>>

\* buckets.py:231-233  blob = self.get_blob(name); if blob: blob.delete()
CloudBucket_delete(t) ==
    /\ pc[t] = "get_blob"
    /\ IF fr[t].name \in remote
       THEN \E fails \in BOOLEAN :
                IF fails
                THEN Finish(t, fr[t], GoogleCloudError) /\ UNCHANGED remote
                ELSE /\ remote' = remote \ {fr[t].name}
                     /\ Goto(t, "local_delete")
                     /\ UNCHANGED fr
       ELSE /\ Goto(t, "local_delete")
            /\ UNCHANGED <<fr, remote>>
    /\ UNCHANGED <<disk, Facade>>

\* a delete without the is_file() test: unlink raises for a missing file
LocalBucket_delete_unchecked(t) ==
    /\ pc[t] = "local_delete"
    /\ LET filepath == PathOf(fr[t].name)
       IN  IF IsFile(disk, filepath)
           THEN disk' = Unlink(disk, filepath) /\ Finish(t, fr[t], "ok")
           ELSE UNCHANGED disk /\ Finish(t, fr[t], "FileNotFoundError")
    /\ UNCHANGED <<remote, Facade>>

\* a delete that forgets the unlink
LocalBucket_delete_keeps(t) ==
    /\ pc[t] = "local_delete"
    /\ Finish(t, fr[t], "ok")
    /\ UNCHANGED <<disk, remote, Facade>>

\* buckets.py:92-94  filepath = self.destination / filename;
\* if filepath.is_file(): filepath.unlink()
LocalBucket_delete(t) ==
    /\ pc[t] = "local_delete"
    /\ LET filepath == PathOf(fr[t].name)
       IN  IF IsFile(disk, filepath)
           THEN disk' = Unlink(disk, filepath)
           ELSE UNCHANGED disk
    /\ Finish(t, fr[t], "ok")
    /\ UNCHANGED <<remote, Facade>>

(***************************************************************************)
(* CloudBucket.url and CloudBucket.signed_url                              *)
(***************************************************************************)
\* buckets.py:139  self.signature = signature or {}: the keyword arguments
\* of generate_signed_url
Signatures == {{}, {<<"version", "v4">>}}

\* a CloudBucket with its signature attribute
SignedCloudBucket(sig) == CloudBucket(FALSE, TRUE, {}) @@ [signature |-> sig]

\* the instances url and signed_url are called on
UrlBackends == {SignedCloudBucket(sig) : sig \in Signatures}

\* the names a caller may ask the URL of
UrlNames ==
    {PathStr(p) : p \in InputPaths \cup DOMAIN disk} \cup remote

\* blob.public_url and the value of blob.generate_signed_url(**signature)
PublicUrl(name) == <<"public_url", name>>
SignedUrl(name, sig) == <<"signed_url", name, sig>>

\* url(name) as a call: the frame of the call that has ended
UrlFrame(op, b, name, res, ret) ==
    [IdleFrame EXCEPT !.op = op, !.b = b, !.name = name, !.res = res,
                      !.ret = ret]

\* a url that serves the local file when there is no blob
CloudBucket_url_fallback(t) ==
    /\ pc[t] = "idle"
    /\ \E b \in UrlBackends, name \in UrlNames :
        Set(t, UrlFrame("url", b, name, "ok",
                        IF name \in remote THEN PublicUrl(name)
                        ELSE IF IsFile(disk, PathOf(name))
                        THEN <<"local_url", name>>
                        ELSE None))
    /\ Goto(t, "done")
    /\ UNCHANGED <<disk, remote, Facade>>

\* buckets.py:157-168  blob = self.get_blob(name); if blob: return
\* blob.public_url (and None is returned otherwise)
CloudBucket_url(t) ==
    /\ pc[t] = "idle"
    /\ \E b \in UrlBackends, name \in UrlNames :
        Set(t, UrlFrame("url", b, name, "ok",
                        IF name \in remote THEN PublicUrl(name) ELSE None))
    /\ Goto(t, "done")
    /\ UNCHANGED <<disk, remote, Facade>>

\* buckets.py:170-183  blob = self.get_blob(name); if blob: return
\* blob.generate_signed_url(**self.signature), which may raise
CloudBucket_signed_url(t) ==
    /\ pc[t] = "idle"
    /\ \E b \in UrlBackends, name \in UrlNames, raises \in BOOLEAN :
        IF name \in remote
        THEN IF raises
             THEN Set(t, UrlFrame("signed_url", b, name, "SigningError", None))
             ELSE Set(t, UrlFrame("signed_url", b, name, "ok",
                                  SignedUrl(name, b.signature)))
        ELSE Set(t, UrlFrame("signed_url", b, name, "ok", None))
    /\ Goto(t, "done")
    /\ UNCHANGED <<disk, remote, Facade>>

(***************************************************************************)
(* Callers of the backends                                                 *)
(***************************************************************************)
SaveFrame(b, bytes, path, public) ==
    [IdleFrame EXCEPT !.op = "save", !.b = b, !.bytes = bytes, !.arg = path,
                      !.path = path, !.public = public]

DeleteFrame(b, name) ==
    [IdleFrame EXCEPT !.op = "delete", !.b = b, !.name = name]

DeleteEntry(b) == IF b.kind = "cloud" THEN "get_blob" ELSE "local_delete"

\* backend.save(storage, path, public=public)
CallSave(t) ==
    /\ pc[t] = "idle"
    /\ Cardinality(DOMAIN disk) < MaxFiles
    /\ Cardinality(remote) < MaxBlobs
    /\ \E b \in Backends, bytes \in Contents, path \in InputPaths, public \in BOOLEAN :
        /\ b.kind = "local" => ~public
        /\ Set(t, SaveFrame(b, bytes, path, public))
    /\ Goto(t, "mkdir")
    /\ UNCHANGED <<disk, remote, Facade>>

\* the names a caller may ask to delete
DeleteNames ==
    {PathStr(p) : p \in InputPaths \cup DOMAIN disk} \cup remote

\* the instances delete is called on (delete reads none of the attributes)
DeleteBackends == {LocalBucket(FALSE), CloudBucket(FALSE, TRUE, {})}

\* backend.delete(name)
CallDelete(t) ==
    /\ pc[t] = "idle"
    /\ \E b \in DeleteBackends, name \in DeleteNames :
        /\ Set(t, DeleteFrame(b, name))
        /\ Goto(t, DeleteEntry(b))
    /\ UNCHANGED <<disk, remote, Facade>>

\* path = backend.save(...); backend.delete(str(path))
DeleteReturned(t) ==
    /\ pc[t] = "done"
    /\ fr[t].op = "save"
    /\ fr[t].res = "ok"
    /\ Set(t, [DeleteFrame(fr[t].b, PathStr(fr[t].path)) EXCEPT !.via = "returned"])
    /\ Goto(t, DeleteEntry(fr[t].b))
    /\ UNCHANGED <<disk, remote, Facade>>

\* backend.delete(name); backend.delete(name)
DeleteAgain(t) ==
    /\ pc[t] = "done"
    /\ fr[t].op = "delete"
    /\ fr[t].via # "again"
    /\ Set(t, [DeleteFrame(fr[t].b, fr[t].name) EXCEPT !.via = "again",
                                                       !.prev = fr[t].res])
    /\ Goto(t, DeleteEntry(fr[t].b))
    /\ UNCHANGED <<disk, remote, Facade>>

\* the caller goes on after the call returned or raised
Return(t) ==
    /\ pc[t] = "done"
    /\ Set(t, IdleFrame)
    /\ Goto(t, "idle")
    /\ UNCHANGED <<disk, remote, Facade>>

BackendStep(t) ==
    \/ LocalBucket_save_mkdir(t)
    \/ LocalBucket_save_exists(t)
    \/ LocalBucket_save_loop(t)
    \/ LocalBucket_save_write(t)
    \/ CloudBucket_save_md5(t)
    \/ CloudBucket_save_upload(t)
    \/ CloudBucket_save_finally(t)
    \/ CloudBucket_save_make_public(t)
    \/ CloudBucket_delete(t)
    \/ LocalBucket_delete(t)

(***************************************************************************)
(* The Bucket facade                                                       *)
(***************************************************************************)
files == <<"f", "i", "l", "e", "s">>

\* the allows argument of Bucket(name, allows): None, or a callable that
\* decides by the suffix of the secured path
NoCallable == [callable |-> FALSE, suffixes |-> {}]
AllowSuffixes(S) == [callable |-> TRUE, suffixes |-> S]

\* buckets.py:249-257  Bucket.__init__
Bucket(name, allows) ==
    IF ~IsAlnum(name)
    THEN [made |-> FALSE, raised |-> "ValueError", arg |-> name, name |-> <<>>,
          allows |-> NoCallable]
    ELSE [made |-> TRUE, raised |-> None, arg |-> name, name |-> name,
          allows |-> allows]

\* an allows with the test for None inverted
Bucket_allows_inverted(bkt, path) ==
    bkt.allows.callable \/ Suffix(PathName(path)) \in bkt.allows.suffixes

\* buckets.py:298-310  Bucket.allows
Bucket_allows(bkt, path) ==
    ~bkt.allows.callable \/ Suffix(PathName(path)) \in bkt.allows.suffixes

\* current_app and app.extensions
NoApp == [pushed |-> FALSE, extensions |-> [key \in {} |-> {}]]
AppWith(extensions) == [pushed |-> TRUE, extensions |-> extensions]
Registry(buckets) == [key \in {"googlestorage"} |-> [buckets |-> buckets]]

\* a storage property that reads the registry only, never self._storage
Bucket_storage_registry_only(bkt, override, a) ==
    IF ~a.pushed THEN [raised |-> "RuntimeError", b |-> NoBackend]
    ELSE IF "googlestorage" \notin DOMAIN a.extensions
    THEN [raised |-> "AssertionError", b |-> NoBackend]
    ELSE LET cfg == a.extensions["googlestorage"].buckets
         IN  IF bkt.name \in DOMAIN cfg
             THEN [raised |-> None, b |-> cfg[bkt.name]]
             ELSE [raised |-> "NotFoundBucketError", b |-> NoBackend]

\* buckets.py:281-296 and utils.py:8-20  the storage property: the backend
\* ([raised |-> None, b |-> backend]) or the exception it raises
Bucket_storage(bkt, override, a) ==
    IF override # <<>> THEN [raised |-> None, b |-> override[1]]
    ELSE IF ~a.pushed THEN [raised |-> "RuntimeError", b |-> NoBackend]
    ELSE IF "googlestorage" \notin DOMAIN a.extensions
    THEN [raised |-> "AssertionError", b |-> NoBackend]
    ELSE LET cfg == a.extensions["googlestorage"].buckets
         IN  IF bkt.name \in DOMAIN cfg
             THEN [raised |-> None, b |-> cfg[bkt.name]]
             ELSE [raised |-> "NotFoundBucketError", b |-> NoBackend]

\* a save that resolves self.storage before it asks self.allows
Bucket_save_storage_first(bkt, override, a, n, isfs, filename, name, uuid_name) ==
    IF ~isfs
    THEN [raised |-> "TypeError", b |-> NoBackend, path |-> <<>>, drawn |-> 0]
    ELSE LET sp == secure_path(filename, name, uuid_name, n)
             st == Bucket_storage(bkt, override, a)
         IN  IF st.raised # None
             THEN [raised |-> st.raised, b |-> NoBackend, path |-> sp.path,
                   drawn |-> sp.drawn]
             ELSE IF ~Bucket_allows(bkt, sp.path)
             THEN [raised |-> "NotAllowedUploadError", b |-> NoBackend,
                   path |-> sp.path, drawn |-> sp.drawn]
             ELSE [raised |-> None, b |-> st.b, path |-> sp.path,
                   drawn |-> sp.drawn]

\* a save that tests isinstance(file_storage, FileStorage) only after it
\* resolved self.storage
Bucket_save_late_type_check(bkt, override, a, n, isfs, filename, name, uuid_name) ==
    LET st == Bucket_storage(bkt, override, a)
    IN  IF st.raised # None
        THEN [raised |-> st.raised, b |-> NoBackend, path |-> <<>>, drawn |-> 0]
        ELSE IF ~isfs
        THEN [raised |-> "TypeError", b |-> NoBackend, path |-> <<>>, drawn |-> 0]
        ELSE LET sp == secure_path(filename, name, uuid_name, n)
             IN  IF ~Bucket_allows(bkt, sp.path)
                 THEN [raised |-> "NotAllowedUploadError", b |-> NoBackend,
                       path |-> sp.path, drawn |-> sp.drawn]
                 ELSE [raised |-> None, b |-> st.b, path |-> sp.path,
                       drawn |-> sp.drawn]

\* buckets.py:343-353  Bucket.save up to the call of self.storage.save: the
\* exception raised, or the backend and the secured path it delegates to,
\* and the number of uuid4() values drawn on the way
Bucket_save(bkt, override, a, n, isfs, filename, name, uuid_name) ==
    IF ~isfs
    THEN [raised |-> "TypeError", b |-> NoBackend, path |-> <<>>, drawn |-> 0]
    ELSE LET sp == secure_path(filename, name, uuid_name, n)
         IN  IF ~Bucket_allows(bkt, sp.path)
             THEN [raised |-> "NotAllowedUploadError", b |-> NoBackend,
                   path |-> sp.path, drawn |-> sp.drawn]
             ELSE LET st == Bucket_storage(bkt, override, a)
                  IN  [raised |-> st.raised, b |-> st.b, path |-> sp.path,
                       drawn |-> sp.drawn]

\* what callers hand to Bucket.save
Filenames == {foo_txt, <<"f", "o", "o", ".", "E", "X", "E">>}
PreferredNames == {<<>>, foo_txt}

\* bucket.save(file_storage, name, public, uuid_name)
BucketSave(t) ==
    /\ pc[t] = "idle"
    /\ bucket.made
    /\ Cardinality(DOMAIN disk) + Cardinality(remote) < MaxFacadeFiles
    /\ \E isfs \in BOOLEAN, filename \in Filenames \cup {<<>>},
          name \in PreferredNames, public \in BOOLEAN, uuid_name \in BOOLEAN,
          bytes \in {"A", None} :
        /\ isfs => filename # <<>> /\ bytes # None
        /\ ~isfs => filename = <<>> /\ bytes = None /\ ~public
        /\ LET r == Bucket_save(bucket, slot, app, uuids, isfs, filename, name,
                                uuid_name)
               f == [IdleFrame EXCEPT !.op = "save", !.via = "Bucket.save",
                                      !.isfs = isfs, !.filename = filename,
                                      !.pname = name, !.uuid_name = uuid_name,
                                      !.public = public, !.bytes = bytes,
                                      !.arg = r.path, !.path = r.path]
           IN  /\ uuids + r.drawn <= MaxUuid
               /\ uuids' = uuids + r.drawn
               /\ IF r.raised # None
                  THEN Finish(t, f, r.raised)
                  ELSE /\ Set(t, [SaveFrame(r.b, bytes, r.path, public)
                                    EXCEPT !.via = "Bucket.save"])
                       /\ Goto(t, "mkdir")
    /\ UNCHANGED <<disk, remote, slot, ctx, app, bucket>>

\* buckets.py:355-361  bucket.delete(filename)
BucketDelete(t) ==
    /\ pc[t] = "idle"
    /\ bucket.made
    /\ \E name \in DeleteNames :
        LET st == Bucket_storage(bucket, slot, app)
            f == [IdleFrame EXCEPT !.op = "delete", !.via = "Bucket.delete",
                                   !.name = name]
        IN  IF st.raised # None
            THEN Finish(t, f, st.raised)
            ELSE /\ Set(t, [f EXCEPT !.b = st.b])
                 /\ Goto(t, DeleteEntry(st.b))
    /\ UNCHANGED <<disk, remote, Facade>>

\* the storages handed to storage_ctx
OverrideBackends == {CloudBucket(TRUE, FALSE, {<<"stop", 2>>})}

\* buckets.py:277-278  with bucket.storage_ctx(storage): the slot is set and
\* the block is entered
storage_ctx_enter(t) ==
    /\ pc[t] = "idle"
    /\ bucket.made
    /\ Len(ctx[t]) < MaxCtxDepth
    /\ \E storage \in OverrideBackends :
        /\ slot' = <<storage>>
        /\ ctx' = [ctx EXCEPT ![t] = Append(@, storage)]
    /\ UNCHANGED <<disk, remote, pc, fr, app, uuids, bucket>>

\* the value of the slot after the generator resumed: buckets.py:279 runs
\* when the block completed, and is not reached when the block raised (the
\* exception is thrown into the generator at the yield of line 278)
storage_ctx_after(override, raised) ==
    IF raised THEN override ELSE <<>>

\* the block of a storage_ctx is left, having completed or raised
storage_ctx_exit(t) ==
    /\ pc[t] = "idle"
    /\ ctx[t] # <<>>
    /\ \E raised \in BOOLEAN : slot' = storage_ctx_after(slot, raised)
    /\ ctx' = [ctx EXCEPT ![t] = SubSeq(@, 1, Len(@) - 1)]
    /\ UNCHANGED <<disk, remote, pc, fr, app, uuids, bucket>>

(***************************************************************************)
(* Spec: one thread calls the backends, one call at a time                 *)
(***************************************************************************)
Init ==
    /\ disk = <<>>
    /\ remote = {}
    /\ pc = [t \in Threads |-> "idle"]
    /\ fr = [t \in Threads |-> IdleFrame]
    /\ slot = <<>>
    /\ ctx = [t \in Threads |-> <<>>]
    /\ app = NoApp
    /\ uuids = 0
    /\ bucket = Bucket(files, NoCallable)

Next ==
    \/ CallSave(MainThread)
    \/ CallDelete(MainThread)
    \/ DeleteReturned(MainThread)
    \/ DeleteAgain(MainThread)
    \/ CloudBucket_url(MainThread)
    \/ CloudBucket_signed_url(MainThread)
    \/ BackendStep(MainThread)
    \/ Return(MainThread)

Spec == Init /\ [][Next]_vars

(***************************************************************************)
(* SpecFacade: one thread uses a Bucket, with and without storage_ctx      *)
(***************************************************************************)
RegistryBackends == {LocalBucket(FALSE), CloudBucket(FALSE, TRUE, {})}

photos == <<"p", "h", "o", "t", "o", "s">>

\* the states of the application a Bucket may be used in: no application
\* context, no extension state, and extension states with and without a
\* backend for the bucket
AppStates ==
    {NoApp, AppWith([key \in {} |-> {}])}
    \cup {AppWith(Registry([n \in {photos} |-> LocalBucket(FALSE)]))}
    \cup {AppWith(Registry([n \in {files} |-> b])) : b \in RegistryBackends}

BucketCallables == {NoCallable, AllowSuffixes({<<".", "t", "x", "t">>})}

InitFacade ==
    /\ disk = <<>>
    /\ remote = {}
    /\ pc = [t \in Threads |-> "idle"]
    /\ fr = [t \in Threads |-> IdleFrame]
    /\ slot = <<>>
    /\ ctx = [t \in Threads |-> <<>>]
    /\ app \in AppStates
    /\ uuids = 0
    /\ bucket \in {Bucket(files, allows) : allows \in BucketCallables}

NextFacade ==
    \/ BucketSave(MainThread)
    \/ BucketDelete(MainThread)
    \/ storage_ctx_enter(MainThread)
    \/ storage_ctx_exit(MainThread)
    \/ BackendStep(MainThread)
    \/ Return(MainThread)

SpecFacade == InitFacade /\ [][NextFacade]_vars

(***************************************************************************)
(* SpecCtor: Bucket(name, allows) for the names of a small alphabet        *)
(***************************************************************************)
NameChars == {"f", "Z", "7", "_", "-", "U+00E9", "U+00B2"}

\* the names tried after prev: the empty name, and prev with one more
\* character while it is shorter than MaxNameLen
NextNames(prev) ==
    {<<>>} \cup {Append(prev, c) : c \in IF Len(prev) < MaxNameLen
                                         THEN NameChars ELSE {}}

\* bucket = Bucket(name, allows)
NewBucket ==
    /\ \E name \in NextNames(bucket.arg), allows \in BucketCallables :
        bucket' = Bucket(name, allows)
    /\ UNCHANGED <<disk, remote, pc, fr, slot, ctx, app, uuids>>

NextCtor == NewBucket

SpecCtor == Init /\ [][NextCtor]_vars

(***************************************************************************)
(* SpecPath: secure_path over every filename and name of a small alphabet, *)
(* and saves of the secured path                                           *)
(***************************************************************************)
PathChars == {"a", "B", ".", "/", "U+5929"}

PathStrings == UNION {[1..len -> PathChars] : len \in 0..MaxPathLen}

\* with a name, secure_path reads of filename its suffix only (utils.py:37):
\* a filename without suffix, with an upper-case one, with a non-ASCII one
ExtFilenames == {<<"a">>, <<"a", ".", "B">>, <<"a", ".", "U+5929">>}

\* longer filenames: a stem and an upper-case extension with something
\* after them (a further suffix, a trailing dot, a separator)
DottedFilenames ==
    {<<"a", ".", "B">> \o s :
        s \in UNION {[1..len -> PathChars] : len \in 0..(MaxPathLen - 2)}}

\* <<filename, name>>: every filename without a name (None), and every
\* name with the filenames of ExtFilenames
InputPairs ==
    {<<f, <<>>>> : f \in PathStrings \cup DottedFilenames}
        \cup (ExtFilenames \X (PathStrings \ {<<>>}))

\* path = secure_path(filename, name, uuid_name)
secure_path_call(t) ==
    /\ pc[t] = "idle"
    /\ \E in \in InputPairs, uuid_name \in BOOLEAN :
        LET r == secure_path(in[1], in[2], uuid_name, uuids)
        IN  /\ uuids + r.drawn <= MaxUuid
            /\ uuids' = uuids + r.drawn
            /\ Set(t, [IdleFrame EXCEPT !.op = "secure_path", !.res = "ok",
                                        !.filename = in[1], !.pname = in[2],
                                        !.uuid_name = uuid_name,
                                        !.arg = r.path, !.path = r.path])
    /\ Goto(t, "done")
    /\ UNCHANGED <<disk, remote, slot, ctx, app, bucket>>

\* the backends the secured path is saved with
SecuredBackends == {LocalBucket(TRUE), CloudBucket(TRUE, FALSE, {})}

\* backend.save(storage, secure_path(...), public)
SaveSecured(t) ==
    /\ pc[t] = "done"
    /\ fr[t].op = "secure_path"
    /\ \E b \in SecuredBackends, public \in BOOLEAN :
        /\ b.kind = "local" => ~public
        /\ Set(t, [SaveFrame(b, "A", fr[t].path, public)
                     EXCEPT !.via = "secure_path"])
    /\ Goto(t, "mkdir")
    /\ UNCHANGED <<disk, remote, Facade>>

\* the same secured path is saved once more
SaveSecuredAgain(t) ==
    /\ pc[t] = "done"
    /\ fr[t].op = "save"
    /\ fr[t].via = "secure_path"
    /\ fr[t].res = "ok"
    /\ Cardinality(Files(disk)) < MaxSecuredSaves
    /\ Set(t, [SaveFrame(fr[t].b, "B", fr[t].arg, fr[t].public)
                 EXCEPT !.via = "secure_path"])
    /\ Goto(t, "mkdir")
    /\ UNCHANGED <<disk, remote, Facade>>

NextPath ==
    \/ secure_path_call(MainThread)
    \/ SaveSecured(MainThread)
    \/ SaveSecuredAgain(MainThread)
    \/ LocalBucket_save_mkdir(MainThread)
    \/ LocalBucket_save_exists(MainThread)
    \/ LocalBucket_save_loop(MainThread)
    \/ LocalBucket_save_write(MainThread)
    \/ CloudBucket_save_md5(MainThread)
    \/ CloudBucket_save_upload(MainThread)
    \/ CloudBucket_save_finally(MainThread)
    \/ CloudBucket_save_make_public(MainThread)

SpecPath == Init /\ [][NextPath]_vars

(***************************************************************************)
(* SpecInit: GoogleStorage.init_app(app) over the buckets it was given    *)
(***************************************************************************)
\* str.upper() of one character, and str.upper()
UpperChar(c) ==
    IF c \in Range(LowerCase)
    THEN UpperCase[CHOOSE i \in 1..Len(LowerCase) : LowerCase[i] = c]
    ELSE c

Upper(s) == [i \in 1..Len(s) |-> UpperChar(s[i])]

\* the keys of app.config: f"{self._prefix}_{key}" and
\* f"{self._prefix}_{bucket.name.upper()}_{key}"
GlobalKey(key) == [bucket |-> <<>>, key |-> key]
BucketKey(name, key) == [bucket |-> Upper(name), key |-> key]

\* app.config is the set of its <<key, value>> items
HasKey(cfg, k) == \E kv \in cfg : kv[1] = k

\* cfg.get(k, default)
cfg_get(cfg, k, default) ==
    IF HasKey(cfg, k) THEN (CHOOSE kv \in cfg : kv[1] = k)[2] ELSE default

\* the parameters of LocalBucket.__init__ (buckets.py:31-36) and of
\* CloudBucket.__init__ (buckets.py:122-131) after self
LocalBucketParams == <<"name", "destination", "resolve_conflicts">>
CloudBucketParams == {"name", "bucket", "destination", "resolve_conflicts",
                      "delete_local", "signature", "tenacity"}

\* google_storage.py:77  LocalBucket(bucket.name, destination, extensions,
\* resolve_conflicts): positional arguments beyond the parameters raise
LocalBucket_call(args) ==
    IF Len(args) > Len(LocalBucketParams)
    THEN [raised |-> "TypeError", backend |-> NoBackend]
    ELSE [raised |-> None,
          backend |-> LocalBucket(args[3]) @@ [destination |-> args[2]]]

\* google_storage.py:62-71  CloudBucket(bucket.name, <bucket>, destination,
\* **kwargs): a keyword that is no parameter raises
CloudBucket_call(destination, kwargs) ==
    IF ~(DOMAIN kwargs \subseteq CloudBucketParams)
    THEN [raised |-> "TypeError", backend |-> NoBackend]
    ELSE [raised |-> None,
          backend |-> CloudBucket(kwargs.resolve_conflicts, kwargs.delete_local,
                                  IF kwargs.tenacity = None THEN {}
                                  ELSE kwargs.tenacity)
                      @@ [destination |-> destination]]

\* google_storage.py:48-79  _create_bucket: the backend made for bkt, or
\* the exception raised.  client is FALSE for None; glob holds the attributes
\* set at lines 40-43; env.remote_ids are the ids get_bucket finds
_create_bucket(cfg, uploads_dest, client, env, glob, bkt) ==
    LET destination == Append(uploads_dest, bkt.name)
        allow == cfg_get(cfg, BucketKey(bkt.name, "ALLOW"), {})
        deny == cfg_get(cfg, BucketKey(bkt.name, "DENY"), {})
    IN  IF "extensions" \notin DOMAIN bkt
        THEN [raised |-> "AttributeError", backend |-> NoBackend]
        ELSE LET extensions == (bkt.extensions \cup allow) \ deny
                 resolve_conflicts ==
                     cfg_get(cfg, BucketKey(bkt.name, "RESOLVE_CONFLICTS"),
                             glob.resolve_conflicts)
                 bucket_name == cfg_get(cfg, BucketKey(bkt.name, "BUCKET"), None)
             IN  IF client /\ bucket_name # None /\ bucket_name \in env.remote_ids
                 THEN CloudBucket_call(destination,
                        [extensions |-> extensions,
                         resolve_conflicts |-> resolve_conflicts,
                         delete_local |->
                             cfg_get(cfg, BucketKey(bkt.name, "DELETE_LOCAL"),
                                     glob.delete_local),
                         signed_url |->
                             cfg_get(cfg, BucketKey(bkt.name, "SIGNED_URL"),
                                     glob.signed_url),
                         retry |-> cfg_get(cfg, BucketKey(bkt.name, "RETRY"),
                                           glob.retry)])
                 ELSE LocalBucket_call(<<bkt.name, destination, extensions,
                                         resolve_conflicts>>)

RECURSIVE CreateAll(_, _, _, _, _, _, _)
\* google_storage.py:45-46  for bucket in self.buckets:
\* ext["buckets"][bucket.name] = self._create_bucket(uploads_dest, bucket);
\* made is ext["buckets"] so far
CreateAll(cfg, uploads_dest, client, env, glob, bkts, made) ==
    IF bkts = <<>> THEN [raised |-> None, buckets |-> made]
    ELSE LET c == _create_bucket(cfg, uploads_dest, client, env, glob, Head(bkts))
         IN  IF c.raised # None THEN [raised |-> c.raised, buckets |-> made]
             ELSE CreateAll(cfg, uploads_dest, client, env, glob, Tail(bkts),
                            [n \in DOMAIN made \cup {Head(bkts).name} |->
                                IF n = Head(bkts).name THEN c.backend
                                ELSE made[n]])

\* app.extensions with ext["ext_obj"] and ext["buckets"] set under key
SetExtension(extensions, key, buckets) ==
    [k \in DOMAIN extensions \cup {key} |->
        IF k = key THEN [ext_obj |-> "GoogleStorage", buckets |-> buckets]
        ELSE extensions[k]]

\* an init_app that registers its state before it looks for the destination
init_app_state_first(a, env, bkts) ==
    [raised |-> "NotFoundDestinationError",
     extensions |-> SetExtension(a.extensions, "google-storage", <<>>)]

\* google_storage.py:22-27  the destination is missing: raise
\* NotFoundDestinationError, with app.extensions as it was
init_app_no_dest(a, env, bkts) ==
    [raised |-> "NotFoundDestinationError", extensions |-> a.extensions]

\* google_storage.py:18-46  init_app: the exception raised (or None) and
\* app.extensions afterwards
init_app(a, env, bkts) ==
    IF ~HasKey(a.config, GlobalKey("LOCAL_DEST"))
    THEN init_app_no_dest(a, env, bkts)
    ELSE LET uploads_dest == cfg_get(a.config, GlobalKey("LOCAL_DEST"), None)
             client == env.credentials
             glob == [resolve_conflicts |->
                          cfg_get(a.config, GlobalKey("RESOLVE_CONFLICTS"), FALSE),
                      delete_local |->
                          cfg_get(a.config, GlobalKey("DELETE_LOCAL"), TRUE),
                      signed_url |->
                          cfg_get(a.config, GlobalKey("SIGNED_URL"), None),
                      retry |-> cfg_get(a.config, GlobalKey("RETRY"), None)]
             created == CreateAll(a.config, uploads_dest, client, env, glob,
                                  bkts, <<>>)
         IN  [raised |-> created.raised,
              extensions |-> SetExtension(a.extensions, "google-storage",
                                          created.buckets)]

\* the settings an application may have, each present or absent
ConfigItems ==
    {<<GlobalKey("LOCAL_DEST"), <<<<"v", "a", "r">>>>>>,
     <<GlobalKey("RESOLVE_CONFLICTS"), TRUE>>,
     <<GlobalKey("DELETE_LOCAL"), FALSE>>,
     <<GlobalKey("RETRY"), {<<"stop", 2>>}>>,
     <<GlobalKey("SIGNED_URL"), {<<"version", "v4">>}>>,
     <<BucketKey(files, "BUCKET"), "files-bucket">>,
     <<BucketKey(photos, "BUCKET"), "photos-bucket">>,
     <<BucketKey(files, "DELETE_LOCAL"), TRUE>>,
     <<BucketKey(files, "RETRY"), {<<"stop", 3>>}>>,
     <<BucketKey(files, "ALLOW"), {"exe"}>>,
     <<BucketKey(files, "DENY"), {"exe"}>>}

Configs == SUBSET ConfigItems

\* the object store at startup: whether cloud.storage.Client() finds
\* credentials, and the bucket ids client.get_bucket finds
Envs == [credentials : BOOLEAN,
         remote_ids : {{}, {"files-bucket"}, {"files-bucket", "photos-bucket"}}]

\* the buckets handed to the GoogleStorage constructor
BucketLists == {<<>>, <<Bucket(files, NoCallable)>>,
                <<Bucket(files, NoCallable), Bucket(photos, NoCallable)>>}

\* GoogleStorage.init_app(app)
GoogleStorage_init_app(t) ==
    /\ pc[t] = "idle"
    /\ \E env \in Envs, bkts \in BucketLists :
        LET r == init_app(app, env, bkts)
        IN  /\ app' = [app EXCEPT !.extensions = r.extensions]
            /\ Finish(t, [IdleFrame EXCEPT !.op = "init_app", !.env = env,
                                           !.buckets = bkts],
                      IF r.raised = None THEN "ok" ELSE r.raised)
    /\ UNCHANGED <<disk, remote, slot, ctx, uuids, bucket>>

InitInit ==
    /\ disk = <<>>
    /\ remote = {}
    /\ pc = [t \in Threads |-> "idle"]
    /\ fr = [t \in Threads |-> IdleFrame]
    /\ slot = <<>>
    /\ ctx = [t \in Threads |-> <<>>]
    /\ app \in {AppWith([key \in {} |-> {}]) @@ [config |-> cfg] : cfg \in Configs}
    /\ uuids = 0
    /\ bucket = Bucket(files, NoCallable)

NextInit ==
    \/ GoogleStorage_init_app(MainThread)
    \/ Return(MainThread)

SpecInit == InitInit /\ [][NextInit]_vars

(***************************************************************************)
(* SpecKey: Bucket.save on a bucket bound to a CloudBucket, the frame of   *)
(* the save keeping what the caller passed                                 *)
(***************************************************************************)
\* the name argument of Bucket.save: None, a file name, a nested name
KeyNames == {<<>>, foo_txt, <<"d", "/">> \o foo_txt}

\* the CloudBucket the registry binds the bucket to
KeyBackends == {CloudBucket(rc, dl, {}) : rc \in BOOLEAN, dl \in BOOLEAN}

\* bucket.save(file_storage, name, public, uuid_name) with a FileStorage
BucketSaveNamed(t) ==
    /\ pc[t] = "idle"
    /\ bucket.made
    /\ Cardinality(DOMAIN disk) + Cardinality(remote) < MaxFacadeFiles
    /\ \E filename \in Filenames, name \in KeyNames, public \in BOOLEAN,
          uuid_name \in BOOLEAN :
        LET r == Bucket_save(bucket, slot, app, uuids, TRUE, filename, name,
                             uuid_name)
        IN  /\ r.raised = None
            /\ uuids + r.drawn <= MaxUuid
            /\ uuids' = uuids + r.drawn
            /\ Set(t, [SaveFrame(r.b, "A", r.path, public)
                         EXCEPT !.via = "Bucket.save", !.filename = filename,
                                !.pname = name, !.uuid_name = uuid_name])
            /\ Goto(t, "mkdir")
    /\ UNCHANGED <<disk, remote, slot, ctx, app, bucket>>

InitKey ==
    /\ disk = <<>>
    /\ remote = {}
    /\ pc = [t \in Threads |-> "idle"]
    /\ fr = [t \in Threads |-> IdleFrame]
    /\ slot = <<>>
    /\ ctx = [t \in Threads |-> <<>>]
    /\ app \in {AppWith(Registry([n \in {files} |-> b])) : b \in KeyBackends}
    /\ uuids = 0
    /\ bucket = Bucket(files, NoCallable)

NextKey ==
    \/ BucketSaveNamed(MainThread)
    \/ LocalBucket_save_mkdir(MainThread)
    \/ LocalBucket_save_exists(MainThread)
    \/ LocalBucket_save_loop(MainThread)
    \/ LocalBucket_save_write(MainThread)
    \/ CloudBucket_save_md5(MainThread)
    \/ CloudBucket_save_upload(MainThread)
    \/ CloudBucket_save_finally(MainThread)
    \/ CloudBucket_save_make_public(MainThread)
    \/ Return(MainThread)

SpecKey == InitKey /\ [][NextKey]_vars

(***************************************************************************)
(* SpecConc: the threads of the process save the same path to the same     *)
(* bucket, their statements interleaved                                    *)
(***************************************************************************)
\* the backend the threads share: a LocalBucket that resolves conflicts, or
\* a CloudBucket that does not and deletes the staged file
ConcBackends == {LocalBucket(TRUE), CloudBucket(FALSE, TRUE, {})}

\* each thread saves content of its own
BytesOf(t) == IF t = MainThread THEN "A" ELSE "B"

\* no call of another thread is in progress
Alone(t) == \A u \in Threads \ {t} : pc[u] \in {"idle", "done"}

\* backend.save(storage, PurePath("foo.txt")) by thread t, on the backend
\* the other thread's call is on; via tells of a call whether it ran alone
\* so far or overlapped with a call of another thread
ConcurrentSave(t) ==
    /\ pc[t] = "idle"
    /\ Cardinality(DOMAIN disk) < MaxFiles
    /\ \E b \in ConcBackends :
        /\ \A u \in Threads \ {t} : fr[u].op # None => fr[u].b = b
        /\ fr' = [u \in Threads |->
                    IF u = t
                    THEN [SaveFrame(b, BytesOf(t), <<foo_txt>>, FALSE)
                            EXCEPT !.via = IF Alone(t) THEN "alone"
                                           ELSE "concurrent"]
                    ELSE IF pc[u] \in {"idle", "done"} THEN fr[u]
                    ELSE [fr[u] EXCEPT !.via = "concurrent"]]
    /\ Goto(t, "mkdir")
    /\ UNCHANGED <<disk, remote, Facade>>

NextConc ==
    \E t \in Threads :
        \/ ConcurrentSave(t)
        \/ LocalBucket_save_mkdir(t)
        \/ LocalBucket_save_exists(t)
        \/ LocalBucket_save_loop(t)
        \/ LocalBucket_save_write(t)
        \/ CloudBucket_save_md5(t)
        \/ CloudBucket_save_upload(t)
        \/ CloudBucket_save_finally(t)
        \/ CloudBucket_save_make_public(t)
        \/ Return(t)

SpecConc == Init /\ [][NextConc]_vars

(***************************************************************************)
(* SpecShared: the threads of the process use one Bucket, whose registry   *)
(* binding is a LocalBucket, with and without storage_ctx                  *)
(***************************************************************************)
InitShared ==
    /\ disk = <<>>
    /\ remote = {}
    /\ pc = [t \in Threads |-> "idle"]
    /\ fr = [t \in Threads |-> IdleFrame]
    /\ slot = <<>>
    /\ ctx = [t \in Threads |-> <<>>]
    /\ app = AppWith(Registry([n \in {files} |-> LocalBucket(FALSE)]))
    /\ uuids = 0
    /\ bucket = Bucket(files, NoCallable)

NextShared ==
    \E t \in Threads :
        \/ storage_ctx_enter(t)
        \/ storage_ctx_exit(t)
        \/ BucketDelete(t)
        \/ CloudBucket_delete(t)
        \/ LocalBucket_delete(t)
        \/ Return(t)

SpecShared == InitShared /\ [][NextShared]_vars

(***************************************************************************)
(* Properties                                                              *)
(***************************************************************************)
\* the frame of the calling thread
F == fr[MainThread]
Done == pc[MainThread] = "done"
CloudSaveDone == Done /\ F.op = "save" /\ F.b.kind = "cloud"

\* C1: a CloudBucket.save with delete_local whose upload failed for good (the
\* single attempt, or the last attempt the retry policy allows) has ended
\* with the file it staged absent from the local destination.
C1_CleanupOnFailure ==
    (CloudSaveDone /\ F.b.delete_local /\ F.calls >= 1 /\ F.uploaded = None)
        => (F.res # "ok" /\ ~Exists(disk, F.path))

\* retries exhausted, the error raised, the staged file gone
C1_Witness ==
    /\ CloudSaveDone /\ F.b.delete_local /\ F.b.tenacity # {}
    /\ F.calls = StopAfter(F.b.tenacity) /\ F.calls >= 2
    /\ F.uploaded = None /\ F.res = GoogleCloudError
    /\ ~Exists(disk, F.path)

\* C2: after a CloudBucket.save that returned, the object is in the remote
\* store under the returned path; the staged copy is absent when
\* delete_local is set and is a file of the destination when it is not.
C2_SuccessfulCloudSave ==
    (CloudSaveDone /\ F.res = "ok")
        => /\ PathStr(F.path) \in remote
           /\ F.uploaded = F.bytes
           /\ F.b.delete_local => ~Exists(disk, F.path)
           /\ ~F.b.delete_local => (IsFile(disk, F.path) /\ disk[F.path] = F.bytes)

\* a nested path saved with delete_local unset: object and local copy present
C2_Witness ==
    /\ CloudSaveDone /\ F.res = "ok" /\ ~F.b.delete_local
    /\ Len(F.path) = 2
    /\ PathStr(F.path) \in remote /\ IsFile(disk, F.path)

\* make_public() raised after the upload went through
MakePublicFailed == F.public /\ F.uploaded # None /\ F.res # "ok"

\* C3: with a retry policy of at most N attempts against a store whose first
\* k uploads raise GoogleCloudError and whose later ones succeed, save
\* succeeds iff k < N, upload is called min(k + 1, N) times, and for k >= N
\* save raises the GoogleCloudError of attempt N (make_public not failing).
C3_BoundedRetry ==
    (CloudSaveDone /\ F.b.tenacity # {} /\ F.calls >= 1
                   /\ F.kind = GoogleCloudError /\ ~MakePublicFailed)
        => LET N == StopAfter(F.b.tenacity)
               k == F.k
           IN  /\ (F.res = "ok") <=> (k < N)
               /\ F.calls = IF k + 1 < N THEN k + 1 ELSE N
               /\ k >= N => /\ F.res = GoogleCloudError
                            /\ F.exc_at = N
                            /\ F.uploaded = None

\* k = 2 and N = 3: success with three calls
C3_Witness ==
    /\ CloudSaveDone /\ F.b.tenacity = {<<"stop", 3>>}
    /\ F.kind = GoogleCloudError /\ F.k = 2
    /\ F.calls = 3 /\ F.res = "ok"

\* C4: a Bucket.save of a file the policy rejects raises
\* NotAllowedUploadError whatever the backend resolution would give, and the
\* step that raises it is the call itself: nothing of the backend ran, disk
\* and remote store are as before.
C4_PolicyBeforeIO ==
    /\ [](Done /\ F.via = "Bucket.save" /\ F.isfs /\ F.b = NoBackend
               /\ ~Bucket_allows(bucket, F.arg)
            => F.res = "NotAllowedUploadError")
    /\ [][(pc'[MainThread] = "done"
            /\ fr'[MainThread].res = "NotAllowedUploadError")
           => /\ pc[MainThread] = "idle"
              /\ fr'[MainThread].calls = 0
              /\ disk' = disk
              /\ remote' = remote]_vars

\* rejected where resolving the backend would have raised RuntimeError
C4_Witness ==
    /\ Done /\ F.via = "Bucket.save" /\ F.res = "NotAllowedUploadError"
    /\ Bucket_storage(bucket, slot, app).raised = "RuntimeError"

\* C5: save and then delete(str(path)) with the returned path, on a
\* LocalBucket or a CloudBucket: once delete returned, the path is not on
\* the local disk and, for a CloudBucket, no blob has that name.
C5_RoundTrip ==
    (Done /\ F.op = "delete" /\ F.via = "returned" /\ F.res = "ok")
        => /\ ~Exists(disk, PathOf(F.name))
           /\ F.b.kind = "cloud" => F.name \notin remote

\* a CloudBucket that kept the local copy and renamed on conflict
C5_Witness ==
    /\ Done /\ F.op = "delete" /\ F.via = "returned" /\ F.res = "ok"
    /\ F.b.kind = "cloud" /\ ~F.b.delete_local /\ F.b.resolve_conflicts
    /\ F.name \notin {PathStr(p) : p \in InputPaths}

\* C6: the steps of a delete of a name that has no blob, or no local file,
\* change nothing and do not raise; a delete repeated after a delete that
\* returned changes nothing and returns.
C6_DeleteIdempotent ==
    [][/\ (pc[MainThread] = "get_blob" /\ F.name \notin remote)
            => /\ pc'[MainThread] = "local_delete"
               /\ UNCHANGED <<disk, remote>>
       /\ (pc[MainThread] = "local_delete" /\ ~IsFile(disk, PathOf(F.name)))
            => /\ pc'[MainThread] = "done"
               /\ fr'[MainThread].res = "ok"
               /\ UNCHANGED <<disk, remote>>
       /\ (pc[MainThread] \in DeleteSteps /\ F.via = "again" /\ F.prev = "ok")
            => /\ pc'[MainThread] = "done" => fr'[MainThread].res = "ok"
               /\ UNCHANGED <<disk, remote>>]_vars

\* the second of two deletes on a CloudBucket has returned
C6_Witness ==
    /\ Done /\ F.op = "delete" /\ F.via = "again" /\ F.prev = "ok"
    /\ F.b.kind = "cloud" /\ F.res = "ok"

\* stem_N + suffix in the folder of arg, for names that end in a suffix of
\* four characters as the names of InputPaths do
Numbered(arg, N) ==
    LET name == arg[Len(arg)]
    IN  SubSeq(arg, 1, Len(arg) - 1)
        \o <<SubSeq(name, 1, Len(name) - 4) \o <<"_">> \o IntToStr(N)
             \o SubSeq(name, Len(name) - 3, Len(name))>>

C8_ScopedOverride ==
    IF ctx[MainThread] # <<>>
    THEN Bucket_storage(bucket, slot, app)
            = [raised |-> None, b |-> ctx[MainThread][Len(ctx[MainThread])]]
    ELSE Bucket_storage(bucket, slot, app) = Bucket_storage(bucket, <<>>, app)

\* C9: a Bucket.save of an object that is no FileStorage raises TypeError
\* whatever the application context and the registry are, and the step
\* that raises it draws no uuid and leaves disk, remote store and the
\* bucket's slot as they were.
C9_TypeCheckFirst ==
    /\ [](Done /\ F.via = "Bucket.save" /\ ~F.isfs => F.res = "TypeError")
    /\ [][(pc'[MainThread] = "done" /\ fr'[MainThread].via = "Bucket.save"
            /\ ~fr'[MainThread].isfs)
           => /\ pc[MainThread] = "idle"
              /\ UNCHANGED <<disk, remote, uuids, slot, app, bucket>>]_vars

\* TypeError with no application context, where a uuid name was asked for
C9_Witness ==
    /\ Done /\ F.via = "Bucket.save" /\ ~F.isfs /\ F.res = "TypeError"
    /\ ~app.pushed /\ slot = <<>>
    /\ F.pname = <<>> /\ F.uuid_name

\* the characters of NameChars that str.isalnum() rejects
NonAlnumChars == {"_", "-"}

C11_UrlOrNone ==
    /\ [](Done /\ F.op \in {"url", "signed_url"}
            => /\ F.name \notin remote => (F.res = "ok" /\ F.ret = None)
               /\ (F.name \in remote /\ F.op = "url")
                    => (F.res = "ok" /\ F.ret = <<"public_url", F.name>>)
               /\ (F.name \in remote /\ F.op = "signed_url" /\ F.res = "ok")
                    => F.ret = <<"signed_url", F.name, F.b.signature>>)
    /\ [][fr'[MainThread].op \in {"url", "signed_url"}
            => (disk' = disk /\ remote' = remote)]_vars

\* None for a name that is a local file and no blob
C11_Witness ==
    /\ Done /\ F.op = "url" /\ F.res = "ok" /\ F.ret = None
    /\ F.name \notin remote /\ IsFile(disk, PathOf(F.name))

\* C12: the path secure_path returns, and the path a save of it returns
\* (also after the _N renaming), has a final segment whose extension has no
\* upper-case letter, for every filename and preferred name.
C12_LowerCaseExtension ==
    (Done /\ F.op \in {"secure_path", "save"} /\ F.res = "ok")
        => LET ext == Suffix(PathName(F.path))
           IN  \A i \in 1..Len(ext) : ext[i] \notin Range(UpperCase)

\* a part that stays below the folder it is joined to
SafePart(part) ==
    /\ part # <<>>
    /\ part # <<".">>
    /\ part # <<".", ".">>
    /\ "/" \notin Range(part)

\* C19: secure_path returns a non-empty relative path none of whose parts
\* is '..', the root or empty, whatever '..' segments or leading '/' the
\* filename and the name have; so what LocalBucket.save makes for it
\* (folders and file) lies under the destination.
C19_NoPathEscape ==
    /\ (Done /\ F.op = "secure_path")
        => (F.path # <<>> /\ \A i \in 1..Len(F.path) : SafePart(F.path[i]))
    /\ \A p \in DOMAIN disk : \A i \in 1..Len(p) : SafePart(p[i])

\* the name /../a is secured to a
C19_Witness ==
    /\ Done /\ F.op = "secure_path"
    /\ F.pname = <<"/", ".", ".", "/", "a">>
    /\ F.path = <<<<"a">>>>

\* the segment secure_path sanitises for the name: the last part of the
\* preferred name, or else the filename
NameSegment ==
    IF F.pname # <<>> THEN PartsName(PurePathParts(F.pname)) ELSE F.filename

\* the extension secure_path keeps: of the preferred name when it has one,
\* or else of the filename
KeptExtension ==
    LET s == Suffix(PartsName(PurePathParts(F.pname)))
    IN  IF F.pname # <<>> /\ s # <<>> THEN s
        ELSE Suffix(PartsName(PurePathParts(F.filename)))

\* a character of which secure_filename keeps something at any position
Usable(c) ==
    c \in AsciiLetters \cup AsciiDigits \cup {"-", "U+00E9", "U+00B2"}

\* C20 (as amended): the final segment secure_path returns never has an
\* empty stem; the name segment is replaced by a uuid4() value exactly when
\* sanitising it leaves the empty string (it has no ASCII letter, digit or
\* '-'), and then the result is the uuid followed by the lower-cased
\* extension; a non-ASCII stem with an ASCII extension does not sanitise to
\* the empty string (U+5929.B gives B.b, as 'jpg.jpg' in test_utils.py).
C20_NonEmptyName ==
    (Done /\ F.op = "secure_path")
        => LET final == PathName(F.path)
           IN  /\ Stem(final) # <<>>
               /\ (F.pname # <<>> \/ ~F.uuid_name)
                    => ((\A i \in 1..Len(NameSegment) : ~Usable(NameSegment[i]))
                            <=> uuids = 1)
               /\ uuids = 1 => final = Uuid(1) \o Lower(KeptExtension)

\* U+5929.B without a preferred name gives B.b and draws no uuid
C20_Witness ==
    /\ Done /\ F.op = "secure_path"
    /\ F.filename = <<"U+5929", ".", "B">> /\ F.pname = <<>> /\ ~F.uuid_name
    /\ F.path = <<<<"B", ".", "b">>>>
    /\ uuids = 0

\* C20 (as stated): the final segment never has an empty stem, and a
\* filename whose stem is purely non-ASCII, saved without preferred name,
\* gets a uuid stem with its extension kept.
C20_UuidForNonAsciiStem ==
    (Done /\ F.op = "secure_path")
        => LET final == PathName(F.path)
               stem == Stem(PartsName(PurePathParts(F.filename)))
           IN  /\ Stem(final) # <<>>
               /\ (F.pname = <<>> /\ ~F.uuid_name /\ stem # <<>>
                     /\ \A i \in 1..Len(stem) : stem[i] \in NonAsciiLetters)
                    => final = Uuid(1) \o Lower(KeptExtension)

InitDone == Done /\ F.op = "init_app"

\* init_app was called with the destination configured
InitWithDest == InitDone /\ HasKey(app.config, GlobalKey("LOCAL_DEST"))

\* the backend init_app registered for bkt: a one-element sequence, or <<>>
Bound(bkt) ==
    IF /\ "google-storage" \in DOMAIN app.extensions
       /\ bkt.name \in DOMAIN app.extensions["google-storage"].buckets
    THEN <<app.extensions["google-storage"].buckets[bkt.name]>>
    ELSE <<>>

\* the value of a setting for bkt: the bucket's, else the global one, else
\* the default
Setting(bkt, key, default) ==
    cfg_get(app.config, BucketKey(bkt.name, key),
            cfg_get(app.config, GlobalKey(key), default))

\* C14: the extension set resolved for a bucket is (defaults UNION allow-list)
\* MINUS deny-list: once init_app has run with a destination, every bucket it
\* was given has a backend that carries an extension set holding every
\* allowed extension that is not denied and no denied extension.
C14_MergeRule ==
    InitWithDest =>
        \A i \in 1..Len(F.buckets) :
            LET allow == cfg_get(app.config, BucketKey(F.buckets[i].name, "ALLOW"), {})
                deny == cfg_get(app.config, BucketKey(F.buckets[i].name, "DENY"), {})
                b == Bound(F.buckets[i])
            IN  /\ b # <<>>
                /\ "extensions" \in DOMAIN b[1]
                /\ (allow \ deny) \subseteq b[1].extensions
                /\ b[1].extensions \cap deny = {}

\* C15: init_app never fails because of the object store: with a destination
\* configured it ends normally whatever the credentials and the remote
\* buckets are, and each bucket is bound to a CloudBucket exactly when the
\* client authenticated, a remote id is configured for the bucket and the
\* remote bucket is found, and to a LocalBucket otherwise.
C15_GracefulDegradation ==
    InitWithDest =>
        /\ F.res = "ok"
        /\ \A i \in 1..Len(F.buckets) :
            LET id == cfg_get(app.config, BucketKey(F.buckets[i].name, "BUCKET"), None)
                b == Bound(F.buckets[i])
            IN  /\ b # <<>>
                /\ b[1].kind = IF /\ F.env.credentials
                                  /\ id # None
                                  /\ id \in F.env.remote_ids
                               THEN "cloud" ELSE "local"

\* C16: after a successful init_app the storage of every bucket it was given
\* resolves to a backend whose destination is LOCAL_DEST/bucket.name, and the
\* storage of a bucket that was not registered raises NotFoundBucketError.
C16_RegistryContract ==
    (InitDone /\ F.res = "ok") =>
        /\ \A i \in 1..Len(F.buckets) :
            LET st == Bucket_storage(F.buckets[i], <<>>, app)
            IN  /\ st.raised = None
                /\ st.b.destination =
                       Append(cfg_get(app.config, GlobalKey("LOCAL_DEST"), None),
                              F.buckets[i].name)
        /\ \A name \in {files, photos} \ {F.buckets[i].name : i \in 1..Len(F.buckets)} :
            Bucket_storage(Bucket(name, NoCallable), <<>>, app).raised
                = "NotFoundBucketError"

\* C17: init_app on an application without GOOGLE_STORAGE_LOCAL_DEST raises
\* NotFoundDestinationError and leaves the application with no extension
\* state and no backend bound for any bucket.
C17_MissingDestinationFatal ==
    ~HasKey(app.config, GlobalKey("LOCAL_DEST")) =>
        /\ DOMAIN app.extensions = {}
        /\ InitDone =>
            /\ F.res = "NotFoundDestinationError"
            /\ \A name \in {files, photos} :
                /\ Bound(Bucket(name, NoCallable)) = <<>>
                /\ Bucket_storage(Bucket(name, NoCallable), <<>>, app).raised # None

C17_Witness ==
    /\ InitDone
    /\ ~HasKey(app.config, GlobalKey("LOCAL_DEST"))
    /\ HasKey(app.config, BucketKey(files, "BUCKET"))
    /\ F.env.credentials
    /\ Len(F.buckets) > 0
    /\ F.res = "NotFoundDestinationError"

\* C18: the backend of a bucket is created with the bucket-specific setting
\* when configured, otherwise the global one, otherwise the default
\* (resolve_conflicts false, delete_local true, no signing options, no retry),
\* and these are the values CloudBucket.save applies.
C18_SettingPrecedence ==
    InitWithDest =>
        \A i \in 1..Len(F.buckets) :
            LET b == Bound(F.buckets[i])
            IN  /\ b # <<>>
                /\ b[1].resolve_conflicts =
                       Setting(F.buckets[i], "RESOLVE_CONFLICTS", FALSE)
                /\ b[1].kind = "cloud" =>
                    /\ b[1].delete_local = Setting(F.buckets[i], "DELETE_LOCAL", TRUE)
                    /\ b[1].tenacity = LET r == Setting(F.buckets[i], "RETRY", None)
                                       IN  IF r = None THEN {} ELSE r
                    /\ b[1].signature = LET g == Setting(F.buckets[i], "SIGNED_URL", None)
                                        IN  IF g = None THEN {} ELSE g

\* C21: CloudBucket.save makes a further upload attempt only when a retry
\* policy is configured and the attempt that failed raised GoogleCloudError;
\* with no retry policy, or when the attempt fails with another error,
\* exactly one attempt is made and save raises that very error.
C21_RetryCondition ==
    /\ [](CloudSaveDone /\ F.calls >= 1
            /\ (F.b.tenacity = {} \/ (F.k >= 1 /\ F.kind # GoogleCloudError))
            => /\ F.calls = 1
               /\ F.k >= 1 => /\ F.res = F.kind
                              /\ F.exc = F.kind
                              /\ F.exc_at = 1
                              /\ F.uploaded = None)
    /\ [][(pc[MainThread] = "upload" /\ pc'[MainThread] = "upload")
           => /\ fr'[MainThread].b.tenacity # {}
              /\ fr'[MainThread].kind = GoogleCloudError
              /\ fr'[MainThread].calls <= fr'[MainThread].k
              /\ fr'[MainThread].calls < StopAfter(fr'[MainThread].b.tenacity)]_vars

\* a local I/O error under a retry policy of three attempts: one call
C21_Witness ==
    /\ CloudSaveDone /\ F.b.tenacity = {<<"stop", 3>>}
    /\ F.kind = "OSError" /\ F.k = 1
    /\ F.calls = 1 /\ F.res = "OSError"

\* C22 (as stated): CloudBucket.delete attempts the local delete of the name
\* in every case, also when the remote object exists and when the remote
\* delete call fails: the step after the remote one is always the local delete.
C22_AlwaysLocalDelete ==
    [][pc[MainThread] = "get_blob" => pc'[MainThread] = "local_delete"]_vars

\* C22 (as amended): CloudBucket.delete removes the remote object when it
\* exists, takes a missing remote object as no error, and goes on to the
\* local delete of the same name whenever the remote delete did not raise;
\* when it raises, delete ends with that error, the local delete is not
\* attempted and the local file is as it was.
C22_LocalDeleteUnlessRemoteRaises ==
    /\ [](Done /\ F.op = "delete" /\ F.b.kind = "cloud" /\ F.res = "ok"
            => (F.name \notin remote /\ ~IsFile(disk, PathOf(F.name))))
    /\ [][pc[MainThread] = "get_blob"
           => \/ /\ pc'[MainThread] = "local_delete"
                 /\ remote' = remote \ {F.name}
                 /\ disk' = disk
              \/ /\ F.name \in remote
                 /\ pc'[MainThread] = "done"
                 /\ fr'[MainThread].res = GoogleCloudError
                 /\ UNCHANGED <<disk, remote>>]_vars

\* the blob of a saved file was deleted and its local copy is next
C22_Witness ==
    /\ pc[MainThread] = "local_delete" /\ F.b.kind = "cloud"
    /\ F.via = "returned"
    /\ F.name \notin remote
    /\ IsFile(disk, PathOf(F.name))

\* a Bucket.save that went through a CloudBucket and returned
KeySaveDone == CloudSaveDone /\ F.via = "Bucket.save" /\ F.res = "ok"

\* name is a uuid4 value drawn so far followed by ext
IsUuidName(name, ext) == \E n \in 1..uuids : name = Uuid(n) \o ext

C24_MakePublicOrdering ==
    \A t \in {MainThread} :
        /\ fr[t].made_public \in {0, 1}
        /\ fr[t].made_public = 1
            => /\ pc[t] = "done"
               /\ fr[t].public
               /\ fr[t].uploaded # None
               /\ BlobName(fr[t].path) \in remote
        /\ pc[t] = "make_public" => (fr[t].uploaded # None /\ fr[t].exc = None)
        /\ (pc[t] = "done" /\ fr[t].op = "save" /\ fr[t].b.kind = "cloud"
              /\ fr[t].public /\ fr[t].uploaded # None)
            => fr[t].made_public = 1

\* the upload went through at the third attempt, then the blob was made public
C24_Witness ==
    /\ CloudSaveDone /\ F.public /\ F.calls = 3 /\ F.uploaded # None
    /\ F.made_public = 1 /\ F.res = "ok"

\* thread t has ended a LocalBucket.save with resolve_conflicts that returned
LocalSaveReturned(t) ==
    /\ pc[t] = "done" /\ fr[t].op = "save" /\ fr[t].res = "ok"
    /\ fr[t].b.kind = "local" /\ fr[t].b.resolve_conflicts

\* C25 (as stated): two LocalBucket.save calls with resolve_conflicts on the
\* same destination return distinct paths and neither overwrites the file
\* of the other, however their existence checks and writes interleave.
C25_NoSharedFinalPath ==
    \A t, u \in Threads :
        (t # u /\ LocalSaveReturned(t) /\ LocalSaveReturned(u))
            => /\ fr[t].path # fr[u].path
               /\ disk[fr[t].path] = fr[t].bytes

\* C25 (as amended): two such calls return distinct paths and neither
\* overwrites the file of the other when they do not overlap, each having
\* started while no call of the other was in progress; two calls that
\* overlap may both return the same path, the later write replacing the
\* earlier one.
C25_DistinctPathsWhenNotOverlapping ==
    \A t, u \in Threads :
        (t # u /\ LocalSaveReturned(t) /\ LocalSaveReturned(u)
               /\ fr[t].via = "alone" /\ fr[u].via = "alone")
            => /\ fr[t].path # fr[u].path
               /\ disk[fr[t].path] = fr[t].bytes

\* one save after the other: foo.txt and foo_1.txt, each with its bytes
C25_Witness ==
    /\ LocalSaveReturned("t1") /\ LocalSaveReturned("t2")
    /\ fr["t1"].via = "alone" /\ fr["t2"].via = "alone"
    /\ fr["t1"].path = <<foo_txt>>
    /\ fr["t2"].path = ConflictName(<<foo_txt>>, 1)
    /\ disk[fr["t1"].path] = "A" /\ disk[fr["t2"].path] = "B"

SlotClearedUnderOpenBlock ==
    /\ ctx["t1"] = <<>> /\ Len(ctx["t2"]) = MaxCtxDepth
    /\ slot = <<>>
    /\ pc["t2"] = "local_delete" /\ fr["t2"].via = "Bucket.delete"
    /\ fr["t2"].b = LocalBucket(FALSE)

\* C27: within one CloudBucket.save the file is staged once and its checksum
\* computed once, before the first upload attempt; every attempt, the first
\* and the repeated ones, uploads the same staged path, and no attempt goes
\* back to the conflict renaming or the staging.
C27_StagedOnce ==
    /\ [](pc[MainThread] = "upload"
            => (IsFile(disk, F.path) /\ F.md5 = disk[F.path]
                  /\ F.md5 = F.bytes))
    /\ [][/\ pc[MainThread] \in {"upload", "finally", "make_public"}
             => pc'[MainThread] \in {"upload", "finally", "make_public", "done"}
          /\ (pc'[MainThread] = "md5" /\ pc[MainThread] # "md5")
             => pc[MainThread] = "write"
          /\ (pc'[MainThread] = "upload" /\ pc[MainThread] # "upload")
             => (pc[MainThread] = "md5" /\ fr'[MainThread].calls = 0)
          /\ (pc[MainThread] = "upload" /\ pc'[MainThread] \in {"upload", "finally"})
             => /\ fr'[MainThread].calls = F.calls + 1
                /\ fr'[MainThread].path = F.path
                /\ fr'[MainThread].count = F.count
                /\ fr'[MainThread].md5 = F.md5
                /\ disk' = disk
                /\ remote' \in {remote, remote \cup {BlobName(F.path)}}]_vars

\* two attempts failed, the third is about to upload the renamed staged file
C27_Witness ==
    /\ pc[MainThread] = "upload" /\ F.calls = 2 /\ F.count >= 1
    /\ F.path = ConflictName(F.arg, F.count)
    /\ IsFile(disk, F.path)

\* C28: when two CloudBucket.save calls for the same path on the same bucket
\* (resolve_conflicts unset, delete_local set) interleave, each call uploads
\* the bytes it staged itself, and neither fails with a missing-file error
\* at checksum, upload or cleanup because the other call's cleanup removed
\* the staged file they share.
C28_IsolatedStagedFile ==
    \A t \in Threads :
        (pc[t] = "done" /\ fr[t].op = "save" /\ fr[t].b.kind = "cloud"
            /\ ~fr[t].b.resolve_conflicts /\ fr[t].b.delete_local)
          => /\ fr[t].res # "FileNotFoundError"
             /\ fr[t].md5 \in {None, fr[t].bytes}
             /\ fr[t].uploaded \in {None, fr[t].bytes}

\* C29: a LocalBucket.save with resolve_conflicts, run by one caller, never
\* modifies or removes an entry that was there before: each of its steps
\* keeps every entry with its content, and the only file added is the one
\* written at the returned path, which did not exist.
C29_PreexistingFilesKept ==
    [][(pc[MainThread] \in {"mkdir", "exists", "loop", "write"}
          /\ F.b.resolve_conflicts)
        => /\ \A p \in DOMAIN disk : p \in DOMAIN disk' /\ disk'[p] = disk[p]
           /\ IF pc[MainThread] = "write" /\ pc'[MainThread] # "write"
              THEN /\ F.path \notin DOMAIN disk
                   /\ Files(disk') = Files(disk) \cup {F.path}
                   /\ disk'[F.path] = F.bytes
                   /\ fr'[MainThread].path = F.path
                   /\ fr'[MainThread].b.kind = "local"
                        => fr'[MainThread].res = "ok"
              ELSE Files(disk') = Files(disk)]_vars

\* foo.txt and foo_1.txt were there: the save returned foo_2.txt and the
\* three files have their contents
C29_Witness ==
    /\ Done /\ F.op = "save" /\ F.b.kind = "local" /\ F.b.resolve_conflicts
    /\ F.res = "ok" /\ F.count = 2
    /\ F.path = ConflictName(<<foo_txt>>, 2)
    /\ IsFile(disk, <<foo_txt>>)
    /\ IsFile(disk, ConflictName(<<foo_txt>>, 1))
    /\ disk[F.path] = F.bytes

====
